---- MODULE Spec2Model ----
(***************************************************************************)
(* Model of the agent orchestration core of fusion360-mcp-server:          *)
(*   server/autonomous_agent.py  AutonomousAgent (plan -> act -> report)   *)
(*   server/agent_factory.py     AgentRegistry, AgentFactory               *)
(*                                                                         *)
(* Scheduling is asyncio's: one thread, a coroutine runs without           *)
(* interruption from one await to the next.  An action of the model is     *)
(* therefore either a whole synchronous call (start, stop, stop_agent,     *)
(* ...) or the piece of run_loop between two awaits.  The one exception is *)
(* AgentRegistry.stop_all_agents, whose critical section is unfolded into  *)
(* acquire / visit / release steps so that the lock is visible as state;   *)
(* nothing else is scheduled while that synchronous call runs.             *)
(*                                                                         *)
(* Python >= 3.8 is assumed: asyncio.CancelledError derives from           *)
(* BaseException and is not caught by "except Exception".                  *)
(***************************************************************************)
EXTENDS Integers, Sequences, FiniteSets, TLC

\* ---------------------------------------------------------------- bounds
\* Number of agent instances the factory / a caller may construct.
NumAgents == 2
\* time.time() ranges over 1..MaxClock (epoch seconds are positive).
MaxClock == 2
\* External calls (start, stop, stop_agent, stop_all_agents, ...) per run.
MaxCalls == 3
\* Tool Executor invocations that fail, over all agents' current runs.
MaxFailures == 3
\* A timeout short enough to elapse within MaxClock.
ShortTimeout == 1

\* Longest plan handed to the report phase on its own.
MaxPlanLen == 3

\* Calls a client makes on the registry itself.
MaxRegCalls == 4

AgentIds == 1..NumAgents

\* -------------------------------------------------------------- constants
\* Python None for start_time / end_time (time.time() is never 0).
NoTime == 0
\* Python None for current_goal / error_message.
None == <<"<None>">>
\* the default of timeout_seconds; the default of max_iterations (10) is
\* beyond the values explored
DefaultTimeoutSeconds == 300

\* max_iterations / timeout_seconds values a configuration may carry:
\* validate_agent_config does not look at "parameters" at all.
MaxIterValues == {-1, 0, 1, 3}
TimeoutValues == {ShortTimeout, DefaultTimeoutSeconds}

\* Goals are strings, modelled as sequences of characters.
GoalBox == <<"a", " ", "B", "o", "x">>
GoalOther == <<"g", "e", "a", "r">>
GoalEmpty == <<>>
\* a goal that is not a str, here a list.  start() takes any object, the
\* HTTP endpoint sends only a str (StartAgentRequest.goal); this goal is what
\* makes a phase raise, so that run_loop's except clause is exercised
GoalNotText == <<"<list>">>
Goals == {GoalBox, GoalOther, GoalEmpty}

VARIABLES
    agent,          \* agent_id -> the AutonomousAgent object's fields
    task,           \* agent_id -> the coroutine running run_loop for it
    registry,       \* AgentRegistry._agents: agent_id -> instance (its id)
    lock,           \* AgentRegistry._lock: "free" or "held"
    stopAll,        \* the stop_all_agents call in progress, if any
    runningTasks,   \* AgentFactory._running_tasks: ids with a tracked task
    config,         \* the autonomous agent configuration the parser serves
    clock,          \* time.time()
    lastCall,       \* the last external call and what it returned
    regCalls        \* history: the calls a client made on the registry itself

vars == <<agent, task, registry, lock, stopAll, runningTasks, config, clock, lastCall,
          regCalls>>

\* ------------------------------------------------------------ AgentState
CREATED == "created"
PLANNING == "planning"
ACTING == "acting"
REPORTING == "reporting"
COMPLETED == "completed"
ERROR == "error"
STOPPED == "stopped"
AgentState == {CREATED, PLANNING, ACTING, REPORTING, COMPLETED, ERROR, STOPPED}
TerminalStates == {COMPLETED, ERROR, STOPPED}

\* ----------------------------------------------------- string operations
UpperCase == <<"A", "B", "C", "D", "E", "F", "G", "H", "I", "J", "K", "L", "M", "N", "O", "P", "Q", "R", "S", "T", "U", "V", "W", "X", "Y", "Z">>
LowerCase == <<"a", "b", "c", "d", "e", "f", "g", "h", "i", "j", "k", "l", "m", "n", "o", "p", "q", "r", "s", "t", "u", "v", "w", "x", "y", "z">>

\* str.lower() on one ASCII character
Lower(c) ==
    IF \E i \in DOMAIN UpperCase : UpperCase[i] = c
    THEN LowerCase[CHOOSE i \in DOMAIN UpperCase : UpperCase[i] = c]
    ELSE c

\* mutant: the goal is matched as written
LowerStrKeepsCase(s) == s

LowerStr(s) == [i \in 1..Len(s) |-> Lower(s[i])]

\* Python's  sub in s
Contains(s, sub) ==
    \E i \in 0..(Len(s) - Len(sub)) :
        \A j \in 1..Len(sub) : s[i + j] = sub[j]

\* ------------------------------------------------------- AutonomousAgent
\* __init__, lines 72-73: config.get("parameters", {}).get(..., default)
ConfiguredMaxIterations(cfg) == cfg.max_iterations
ConfiguredTimeoutSeconds(cfg) == cfg.timeout_seconds

\* __init__: the fields of a fresh instance.  exec_calls, exec_failed,
\* loop_exit and end_stamps (the number of assignments to end_time) are
\* history fields of the model (what the run begun by the last start() did),
\* not fields of the object.
InitAgent(cfg) ==
    [ state |-> CREATED,
      current_goal |-> None,
      current_plan |-> <<>>,
      execution_log |-> <<>>,
      error_message |-> None,
      stop_requested |-> FALSE,
      running |-> FALSE,
      max_iterations |-> ConfiguredMaxIterations(cfg),
      timeout_seconds |-> ConfiguredTimeoutSeconds(cfg),
      start_time |-> NoTime,
      end_time |-> NoTime,
      iterations_completed |-> 0,
      exec_calls |-> 0,
      exec_failed |-> 0,
      loop_exit |-> "none",
      end_stamps |-> 0 ]

\* get_status: elapsed_time and the snapshot.
ElapsedTime(ag, now) ==
    IF ag.start_time # NoTime
    THEN (IF ag.end_time # NoTime THEN ag.end_time ELSE now) - ag.start_time
    ELSE 0

GetStatus(a, ag, now) ==
    [ agent_id |-> a,
      state |-> ag.state,
      current_goal |-> ag.current_goal,
      iterations_completed |-> ag.iterations_completed,
      max_iterations |-> ag.max_iterations,
      elapsed_time |-> ElapsedTime(ag, now),
      timeout_seconds |-> ag.timeout_seconds,
      error_message |-> ag.error_message,
      running |-> ag.running,
      execution_log_length |-> Len(ag.execution_log) ]

\* _check_timeout: TRUE while the run is within its time budget.
CheckTimeout(ag, now) ==
    IF ag.start_time = NoTime THEN TRUE
    ELSE now - ag.start_time < ag.timeout_seconds

\* mutant: the time budget is not part of the test
ShouldStopIgnoresTimeout(ag, now) == ag.stop_requested \/ ag.state = ERROR

\* _should_stop
ShouldStop(ag, now) ==
    ag.stop_requested \/ ag.state = ERROR \/ ~CheckTimeout(ag, now)

\* mutant: start() has no guard
StartNeverRaises(ag) == FALSE

\* mutant: the guard lets a running agent whose stop was requested restart
StartRaisesUnlessStopping(ag) == ag.running /\ ~ag.stop_requested

\* start(): the guard of lines 94-95.
StartRaises(ag) == ag.running

\* start(): the assignments of lines 97-103.  current_plan and end_time are
\* not assigned.
Start(ag, goal, now) ==
    [ag EXCEPT !.current_goal = goal,
               !.state = PLANNING,
               !.stop_requested = FALSE,
               !.start_time = now,
               !.error_message = None,
               !.execution_log = <<>>,
               !.iterations_completed = 0,
               !.exec_calls = 0,
               !.exec_failed = 0,
               !.loop_exit = "none",
               !.end_stamps = 0]

\* mutant: stop() moves an agent in any state to STOPPED
StopChangesStateAlways(ag) == TRUE

\* mutant: only STOPPED counts as terminal
StopChangesStateUnlessStopped(ag) == ag.state # STOPPED

\* stop(): the test of line 119.
StopChangesState(ag) == ag.state \notin TerminalStates

\* mutant: end_time is stamped on every call
StopAlwaysStamps(ag, now) ==
    IF StopChangesState(ag)
    THEN [ag EXCEPT !.stop_requested = TRUE, !.state = STOPPED, !.end_time = now,
                    !.end_stamps = @ + 1]
    ELSE [ag EXCEPT !.stop_requested = TRUE, !.end_time = now, !.end_stamps = @ + 1]

\* stop(): lines 116-121.
Stop(ag, now) ==
    IF StopChangesState(ag)
    THEN [ag EXCEPT !.stop_requested = TRUE, !.state = STOPPED, !.end_time = now,
                    !.end_stamps = @ + 1]
    ELSE [ag EXCEPT !.stop_requested = TRUE]

\* _create_plan_for_goal.  An action dict has no "status" key until the act
\* phase sets one: "pending".
NewAction(name) == [action |-> name, status |-> "pending", result |-> "none"]

CreatePlanForGoal(goal) ==
    LET goal_lower == LowerStr(goal) IN
    IF Contains(goal_lower, <<"b", "o", "x">>)
       \/ Contains(goal_lower, <<"c", "u", "b", "e">>)
    THEN <<NewAction("CreateSketch"), NewAction("DrawRectangle"), NewAction("Extrude")>>
    ELSE IF Contains(goal_lower, <<"c", "i", "r", "c", "l", "e">>)
            \/ Contains(goal_lower, <<"c", "y", "l", "i", "n", "d", "e", "r">>)
    THEN <<NewAction("CreateSketch"), NewAction("DrawCircle"), NewAction("Extrude")>>
    ELSE <<NewAction("CreateSketch")>>

\* goal.lower() (line 278) raises AttributeError on a goal that has no
\* such method
CreatePlanRaises(goal) == goal = GoalNotText
NoLowerText == <<"'list' object has no attribute 'lower'">>

PlanNames(plan) == [i \in 1..Len(plan) |-> plan[i].action]
CountStatus(plan, st) == Cardinality({i \in 1..Len(plan) : plan[i].status = st})

\* ------------------------------------------------------------- run_loop
\* Each operator below is the code run_loop executes from one await to the
\* next; it returns the agent's new fields and where the coroutine is
\* suspended: "plan_sleep" (line 194), "act_exec" (line 217, on action idx),
\* "report_sleep" (line 239) or "done".
At(ag, pc, idx) == [ag |-> ag, pc |-> pc, idx |-> idx]

\* mutant: the loop does not look at the iteration count
WhileCondUncounted(ag, now) == ~ag.stop_requested /\ CheckTimeout(ag, now)

\* the while condition, lines 138-142
WhileCond(ag, now) ==
    /\ ag.iterations_completed < ag.max_iterations
    /\ ~ag.stop_requested
    /\ CheckTimeout(ag, now)

\* mutant: the timeout is looked at before the iteration count
FinalStateTimeoutFirst(ag, now) ==
    IF ~ag.stop_requested /\ ag.state # COMPLETED
    THEN IF ~CheckTimeout(ag, now)
         THEN [ag EXCEPT !.state = ERROR,
                         !.error_message = <<"Execution timeout exceeded">>]
         ELSE IF ag.iterations_completed >= ag.max_iterations
              THEN [ag EXCEPT !.state = COMPLETED]
              ELSE ag
    ELSE ag

\* "Final state determination", lines 168-175
FinalState(ag, now) ==
    IF ~ag.stop_requested /\ ag.state # COMPLETED
    THEN IF ag.iterations_completed >= ag.max_iterations
         THEN [ag EXCEPT !.state = COMPLETED]
         ELSE IF ~CheckTimeout(ag, now)
              THEN [ag EXCEPT !.state = ERROR,
                              !.error_message = <<"Execution timeout exceeded">>]
              ELSE ag
    ELSE ag

\* the finally clause, lines 182-184
Finally(ag, now, how) ==
    [ag EXCEPT !.running = FALSE, !.end_time = now, !.loop_exit = how,
               !.end_stamps = @ + 1]

\* mutant: a failure leaves the state and the message as they are
OnExceptionUnrecorded(ag, text) == ag

\* the except clause, lines 177-180: str(e) is kept
OnException(ag, text) == [ag EXCEPT !.state = ERROR, !.error_message = text]

\* an exception raised inside the try block: except, finally, return
ExitOnException(ag, text, now) ==
    At(Finally(OnException(ag, text), now, "returned"), "done", 0)

\* leaving the while loop (condition false, or break) and returning
ExitLoop(ag, now) == At(Finally(FinalState(ag, now), now, "returned"), "done", 0)

\* the loop condition, then _plan_phase up to its sleep (lines 138-146, 190-194)
WhileHead(ag, now) ==
    IF WhileCond(ag, now)
    THEN At([ag EXCEPT !.state = PLANNING], "plan_sleep", 0)
    ELSE ExitLoop(ag, now)

\* "if not self.current_goal": None and the empty string are both falsy
GoalMissing(ag) == ag.current_goal = None \/ ag.current_goal = <<>>

\* run_loop from its first line to its first await (lines 132-146)
RunLoopBegin(ag, now) ==
    IF GoalMissing(ag)
    THEN At([ag EXCEPT !.loop_exit = "raised"], "done", 0)
    ELSE WhileHead([ag EXCEPT !.running = TRUE], now)

\* mutant: the act phase writes no log entry
ActEndUnlogged(ag, now) ==
    IF ShouldStop(ag, now)
    THEN ExitLoop(ag, now)
    ELSE At([ag EXCEPT !.state = REPORTING], "report_sleep", 0)

\* _act_phase after the loop over the plan (lines 225-231), then run_loop
\* lines 152-156 and _report_phase up to its sleep (lines 235-239)
ActEnd(ag, now) ==
    LET ag1 == [ag EXCEPT !.execution_log = Append(@,
                    [phase |-> "act", timestamp |-> now,
                     actions_executed |-> CountStatus(ag.current_plan, "completed"),
                     actions_failed |-> CountStatus(ag.current_plan, "error"),
                     iteration |-> ag.iterations_completed])]
    IN IF ShouldStop(ag1, now)
       THEN ExitLoop(ag1, now)
       ELSE At([ag1 EXCEPT !.state = REPORTING], "report_sleep", 0)

\* mutant: the for loop does not look at _should_stop
ActLoopIgnoresStop(ag, i, now) ==
    IF i > Len(ag.current_plan)
    THEN ActEnd(ag, now)
    ELSE At([ag EXCEPT !.exec_calls = @ + 1], "act_exec", i)

\* the for loop of _act_phase at action i (lines 212-217): stop, or invoke
\* the Tool Executor on action i and await it
ActLoop(ag, i, now) ==
    IF i > Len(ag.current_plan) \/ ShouldStop(ag, now)
    THEN ActEnd(ag, now)
    ELSE At([ag EXCEPT !.exec_calls = @ + 1], "act_exec", i)

\* _plan_phase after its sleep (lines 197-204), run_loop lines 147-151 and
\* _act_phase up to the first executor call
PlanResume(ag, now) ==
    IF CreatePlanRaises(ag.current_goal)
    THEN ExitOnException(ag, NoLowerText, now)
    ELSE
    LET plan == CreatePlanForGoal(ag.current_goal)
        ag1 == [ag EXCEPT !.current_plan = plan,
                          !.execution_log = Append(@,
                              [phase |-> "plan", timestamp |-> now,
                               plan |-> PlanNames(plan),
                               iteration |-> ag.iterations_completed])]
    IN IF ShouldStop(ag1, now)
       THEN ExitLoop(ag1, now)
       ELSE ActLoop([ag1 EXCEPT !.state = ACTING], 1, now)

\* mutant: a failed action is counted but not marked
MarkActionOnSuccessOnly(ag, i, ok) ==
    IF ok
    THEN [ag EXCEPT !.current_plan[i].status = "completed",
                    !.current_plan[i].result = "result"]
    ELSE [ag EXCEPT !.exec_failed = @ + 1]

\* the executor call on action i returned (ok) or raised (lines 217-223).
\* The built-in simulation of _execute_action (no tool_executor) is the
\* executor that always returns.
MarkAction(ag, i, ok) ==
    [ag EXCEPT !.current_plan[i].status = IF ok THEN "completed" ELSE "error",
               !.current_plan[i].result = IF ok THEN "result" ELSE "error text",
               !.exec_failed = IF ok THEN @ ELSE @ + 1]

ExecResume(ag, i, ok, now) == ActLoop(MarkAction(ag, i, ok), i + 1, now)

\* Python's true division m / n of two ints, n > 0, as the reduced fraction
RECURSIVE Gcd(_, _)
Gcd(m, n) == IF n = 0 THEN m ELSE Gcd(n, m % n)

TrueDiv(m, n) == [num |-> m \div Gcd(m, n), den |-> n \div Gcd(m, n)]

\* the int 0 of "... if total_actions > 0 else 0"
IntZero == [num |-> 0, den |-> 1]

\* mutant: an empty plan counts as a completed goal
ReportVacuous(ag) ==
    LET completed_actions == CountStatus(ag.current_plan, "completed")
        total_actions == Len(ag.current_plan)
    IN [goal_completed |-> completed_actions = total_actions,
        actions_completed |-> completed_actions,
        total_actions |-> total_actions,
        success_rate |-> IF total_actions > 0
                         THEN TrueDiv(completed_actions, total_actions)
                         ELSE IntZero,
        iteration |-> ag.iterations_completed]

\* the report of _report_phase (lines 242-254)
Report(ag) ==
    LET completed_actions == CountStatus(ag.current_plan, "completed")
        total_actions == Len(ag.current_plan)
    IN [goal_completed |-> total_actions > 0 /\ completed_actions = total_actions,
        actions_completed |-> completed_actions,
        total_actions |-> total_actions,
        success_rate |-> IF total_actions > 0
                         THEN TrueDiv(completed_actions, total_actions)
                         ELSE IntZero,
        iteration |-> ag.iterations_completed]

\* mutant: one completed action is enough to break as COMPLETED
GoalReachedOnAnySuccess(report) == report.actions_completed > 0

\* mutant: the loop never breaks on a completed goal
GoalNeverReached(report) == FALSE

\* what run_loop does with the report, lines 161-165: TRUE = break as COMPLETED
GoalReached(report) == report.goal_completed

\* mutant: the next iteration begins without counting the one that ended
ReportResumeUncounted(ag, now) ==
    LET report == Report(ag)
        ag1 == [ag EXCEPT !.execution_log = Append(@,
                    [phase |-> "report", timestamp |-> now, report |-> report,
                     iteration |-> ag.iterations_completed])]
    IN IF ShouldStop(ag1, now)
       THEN ExitLoop(ag1, now)
       ELSE IF GoalReached(report)
            THEN ExitLoop([ag1 EXCEPT !.state = COMPLETED], now)
            ELSE WhileHead(ag1, now)

\* _report_phase after its sleep (lines 242-263), run_loop lines 157-165 and
\* the next evaluation of the loop condition
ReportResume(ag, now) ==
    LET report == Report(ag)
        ag1 == [ag EXCEPT !.execution_log = Append(@,
                    [phase |-> "report", timestamp |-> now, report |-> report,
                     iteration |-> ag.iterations_completed])]
    IN IF ShouldStop(ag1, now)
       THEN ExitLoop(ag1, now)
       ELSE IF GoalReached(report)
            THEN ExitLoop([ag1 EXCEPT !.state = COMPLETED], now)
            ELSE WhileHead([ag1 EXCEPT !.iterations_completed = @ + 1], now)

\* CancelledError thrown into run_loop at its await: no except clause
\* matches, the finally clause runs (lines 182-184)
Cancelled(ag, now) == At(Finally(ag, now, "cancelled"), "done", 0)

\* --------------------------------------------------- the config provider
\* The agents the configuration file defines, by name.  A configuration is
\* a dict: a function from its keys.  The value of "autonomous" is written
\* "True" / "False" for the two booleans and "yes" for a value that is not
\* one.  "ghost" is not in the file; "blank" is there with an empty dict.
ConfigNames == {"designer", "helper", "plain", "draft", "odd", "blank", "ghost"}

\* agent_config_parser.get_agent(name): the dict, or None (the empty tuple)
ParserGetAgent(name, parameters) ==
    CASE name = "designer" ->
           <<[name |-> "Designer", description |-> "designs parts",
              autonomous |-> "True", instructions |-> "design",
              parameters |-> parameters]>>
      [] name = "helper" ->
           <<[name |-> "Helper", description |-> "runs commands",
              autonomous |-> "False"]>>
      [] name = "plain" ->
           <<[name |-> "Plain", description |-> "runs commands"]>>
      [] name = "draft" ->
           <<[name |-> "Draft", autonomous |-> "True"]>>
      [] name = "odd" ->
           <<[name |-> "Odd", description |-> "mistyped flag",
              autonomous |-> "yes", instructions |-> "design"]>>
      [] name = "blank" -> <<[k \in {} |-> ""]>>
      [] OTHER -> <<>>

\* bool(v) for the values of "autonomous"
Truthy(v) == v # "False"
IsBool(v) == v \in {"True", "False"}

\* config.get("autonomous", False)
GetAutonomous(c) == IF "autonomous" \in DOMAIN c THEN c.autonomous ELSE "False"

\* validate_agent_config: the list of error messages
ValidateAgentConfig(c) ==
    LET missing(f) == IF f \in DOMAIN c THEN <<>>
                      ELSE <<<<"Missing required field: ", f>>>>
        flag == IF "autonomous" \in DOMAIN c /\ ~IsBool(c.autonomous)
                THEN <<<<"Field 'autonomous' must be a boolean">>>> ELSE <<>>
        instr == IF Truthy(GetAutonomous(c)) /\ "instructions" \notin DOMAIN c
                 THEN <<<<"Autonomous agents require 'instructions' field">>>> ELSE <<>>
    IN missing("name") \o missing("description") \o flag \o instr

\* '; '.join(errors): the messages with the separator between them
RECURSIVE Join(_, _)
Join(msgs, sep) ==
    IF Len(msgs) = 0 THEN <<>>
    ELSE IF Len(msgs) = 1 THEN msgs[1]
    ELSE msgs[1] \o <<sep>> \o Join(Tail(msgs), sep)

\* mutant: a configuration is taken as it comes
ValidationSkipped(name, parameters) ==
    LET c == ParserGetAgent(name, parameters) IN
    IF c = <<>> \/ DOMAIN c[1] = {}
    THEN [raised |-> "Agent configuration not found", errors |-> <<name>>,
          kind |-> "none", name |-> ""]
    ELSE [raised |-> "", errors |-> <<>>,
          kind |-> IF Truthy(GetAutonomous(c[1])) THEN "autonomous" ELSE "basic",
          name |-> c[1].name]

\* create_agent, lines 126-151: the exception it raises, or the kind of
\* instance it builds.  "not config" holds for None and for the empty dict.
CreateAgentOutcome(name, parameters) ==
    LET c == ParserGetAgent(name, parameters) IN
    IF c = <<>> \/ DOMAIN c[1] = {}
    THEN [raised |-> "Agent configuration not found", errors |-> <<name>>,
          kind |-> "none", name |-> ""]
    ELSE LET validation_errors == ValidateAgentConfig(c[1]) IN
         IF validation_errors # <<>>
         THEN [raised |-> "Invalid agent configuration",
               errors |-> Join(validation_errors, "; "),
               kind |-> "none", name |-> ""]
         ELSE [raised |-> "", errors |-> <<>>,
               kind |-> IF Truthy(GetAutonomous(c[1])) THEN "autonomous" ELSE "basic",
               name |-> c[1].name]

\* mutant: whatever create_agent built is registered and started
AnyInstanceStarts(kind) == TRUE

\* start_autonomous_agent, line 176: isinstance(agent, AutonomousAgent)
IsAutonomousAgent(kind) == kind = "autonomous"

\* mutant: the new agent is not entered in the registry
RegisterAgentDropped(reg, k, inst) == reg

\* --------------------------------------------------------- AgentRegistry
\* dict iteration order is insertion order; ids are handed out in
\* increasing order, so the keys are visited in increasing order.
RECURSIVE KeysInOrder(_)
KeysInOrder(S) ==
    IF S = {} THEN <<>>
    ELSE LET k == CHOOSE x \in S : \A y \in S : x <= y
         IN <<k>> \o KeysInOrder(S \ {k})

\* register_agent: self._agents[agent_id] = agent
RegisterAgent(reg, k, inst) ==
    [x \in DOMAIN reg \cup {k} |-> IF x = k THEN inst ELSE reg[x]]

\* mutant: the entry is looked up but not removed
UnregisterKeepsEntry(reg, k) == reg

\* unregister_agent: what self._agents.pop(agent_id, None) leaves
UnregisterAgent(reg, k) == [x \in DOMAIN reg \ {k} |-> reg[x]]

\* get_agent: the instance, or Python None (the empty tuple)
GetAgent(reg, k) == IF k \in DOMAIN reg THEN <<reg[k]>> ELSE <<>>

\* mutant: every registered agent is stopped, running or not
StopAllSelectsEveryAgent(ag) == TRUE

\* stop_all_agents, line 96: which entries are stopped
StopAllSelects(ag) == ag.running

\* stop_all_agents as the one synchronous call it is: the agents after it
\* and the ids it returns, visiting keys in order
RECURSIVE StopAllFrom(_, _, _, _)
StopAllFrom(ags, reg, keys, now) ==
    IF keys = <<>> THEN [agents |-> ags, stopped |-> <<>>]
    ELSE LET a == reg[Head(keys)] IN
         IF StopAllSelects(ags[a])
         THEN LET r == StopAllFrom([ags EXCEPT ![a] = Stop(@, now)], reg, Tail(keys), now)
              IN [agents |-> r.agents, stopped |-> <<Head(keys)>> \o r.stopped]
         ELSE StopAllFrom(ags, reg, Tail(keys), now)

\* get_agent_status (factory lines 244-245): the snapshot, or None
GetAgentStatus(reg, ags, k, now) ==
    IF GetAgent(reg, k) = <<>> THEN <<>> ELSE <<GetStatus(reg[k], ags[reg[k]], now)>>

\* ------------------------------------------------------------ task state
NoTask == [pc |-> "none", idx |-> 0, cancel |-> FALSE, wrapped |-> FALSE]
Suspended == {"plan_sleep", "act_exec", "report_sleep"}
Live(t) == t.pc \in Suspended \cup {"spawned"}

\* mutant: the task is dropped from the table without being cancelled
CancelForgotten(t) == t

\* Task.cancel(): a request, delivered when the task is next scheduled;
\* no effect on a task that is done
CancelTask(t) == IF Live(t) THEN [t EXCEPT !.cancel = TRUE] ELSE t

\* mutant: cleanup cancels the tasks and keeps their entries
TasksLeftTracked(tracked) == tracked

\* cleanup, line 328: self._running_tasks.clear()
ClearTasks(tracked) == {}

\* mutant: the finally clause leaves the table alone
UntrackSkipped(tracked, a, t) == tracked

\* _run_agent_loop's finally clause (lines 202-205), for a task the factory
\* wrapped; a coroutine awaited directly has no such clause
UntrackOnExit(tracked, a, t) == IF t.wrapped THEN tracked \ {a} ELSE tracked

\* how the coroutine of task t ends once run_loop has left as the agent's
\* loop_exit says: _run_agent_loop (lines 198-200) catches what run_loop
\* raises; CancelledError is no Exception and passes
TaskOutcome(t, ag) ==
    IF t.wrapped /\ ag.loop_exit = "raised" THEN "returned" ELSE ag.loop_exit

\* ------------------------------------------------------------------ Init
\* The configuration file is read before the first call and fixes the
\* parameters of every instance built from it.
Init ==
    /\ config \in [max_iterations : MaxIterValues, timeout_seconds : TimeoutValues]
    /\ agent = <<>>
    /\ task = <<>>
    /\ registry = [k \in {} |-> 0]
    /\ lock = "free"
    /\ stopAll = [todo |-> <<>>, stopped |-> <<>>]
    /\ runningTasks = {}
    /\ clock = 1
    /\ lastCall = [seq |-> 0, op |-> "none", agent |-> 0, arg |-> <<>>, raised |-> "",
                   ret |-> <<>>, touched |-> FALSE, repeat |-> FALSE,
                   name |-> "", errors |-> <<>>, did |-> <<>>]
    /\ regCalls = <<>>

\* every variable but agent and task as the factory leaves them at start-up
Idle ==
    /\ registry = [k \in {} |-> 0]
    /\ lock = "free"
    /\ stopAll = [todo |-> <<>>, stopped |-> <<>>]
    /\ runningTasks = {}
    /\ clock = 1
    /\ lastCall = [seq |-> 0, op |-> "none", agent |-> 0, arg |-> <<>>, raised |-> "",
                   ret |-> <<>>, touched |-> FALSE, repeat |-> FALSE,
                   name |-> "", errors |-> <<>>, did |-> <<>>]
    /\ regCalls = <<>>

Existing == 1..Len(agent)

\* Bound of the exploration: a configuration that allows more than one
\* iteration is explored with a single instance.
FleetSize(cfg) == IF cfg.max_iterations <= 1 THEN NumAgents ELSE 1

\* no synchronous call is in progress and the call budget is not used up
CanCall == lock = "free" /\ lastCall.seq < MaxCalls

\* The record of the last external call: what was called on which
\* instance with which goal (<<>> when the call takes none), the exception
\* message ("" for none), the returned value (<<>>
\* for None), whether the instance has been written since (touched), and
\* whether the call repeated the call before it, on the same instance, with
\* the instance not written in between (repeat).  name is the configuration
\* name the call was given, errors the list of messages its exception
\* carries and did the calls the operation made, in order; the operations
\* that have one of them fill it in.
Called(op, a, arg, raised, ret) ==
    [seq |-> lastCall.seq + 1, op |-> op, agent |-> a, arg |-> arg,
     raised |-> raised, ret |-> ret, touched |-> FALSE,
     repeat |-> lastCall.op = op /\ lastCall.agent = a /\ ~lastCall.touched,
     name |-> "", errors |-> <<>>, did |-> <<>>]

\* a step other than a call on it writes instance a
Touch(a) == IF lastCall.agent = a THEN [lastCall EXCEPT !.touched = TRUE] ELSE lastCall

\* --------------------------------------------------------- external calls
\* a call that raised: nothing but the record of the call changes
Raised(op, name, arg, outcome, did) ==
    /\ lastCall' = [Called(op, 0, arg, outcome.raised, <<>>)
                       EXCEPT !.name = name, !.errors = outcome.errors, !.did = did]
    /\ UNCHANGED <<agent, task, registry, lock, stopAll, runningTasks, config, clock,
                   regCalls>>

\* AgentFactory.create_agent(name), lines 126-153.  A BasicAgent has no
\* state the factory reads; it is handed to the caller and not kept.
CreateAgentFor(name) ==
    /\ CanCall
    /\ LET o == CreateAgentOutcome(name, config) IN
       IF o.raised # ""
       THEN Raised("create_agent", name, <<>>, o, <<>>)
       ELSE IF ~IsAutonomousAgent(o.kind)
       THEN /\ lastCall' = [Called("create_agent", 0, <<>>, "",
                                   <<[kind |-> o.kind, name |-> o.name]>>)
                               EXCEPT !.name = name]
            /\ UNCHANGED <<agent, task, registry, lock, stopAll, runningTasks, config,
                           clock, regCalls>>
       ELSE /\ Len(agent) < FleetSize(config)
            /\ agent' = Append(agent, InitAgent(config))
            /\ task' = Append(task, NoTask)
            /\ lastCall' = [Called("create_agent", Len(agent) + 1, <<>>, "",
                                   <<[kind |-> o.kind, name |-> o.name]>>)
                               EXCEPT !.name = name]
            /\ UNCHANGED <<registry, lock, stopAll, runningTasks, config, regCalls, clock>>

\* AgentFactory.create_agent for the autonomous configuration
CreateAgent == CreateAgentFor("designer")

\* the calls a successful start_autonomous_agent makes, lines 175-187
StartCalls == <<"create_agent", "register_agent", "start", "create_task", "track_task">>

\* AgentFactory.start_autonomous_agent(name, goal): create, register,
\* start, spawn the task, track it (lines 175-189)
StartAutonomousAgentFor(name, goal) ==
    /\ CanCall
    /\ LET o == CreateAgentOutcome(name, config) IN
       IF o.raised # ""
       THEN Raised("start_autonomous_agent", name, goal, o, <<"create_agent">>)
       ELSE IF ~IsAutonomousAgent(o.kind)
       THEN Raised("start_autonomous_agent", name, goal,
                   [raised |-> "Agent is not configured as autonomous",
                    errors |-> <<name>>],
                   <<"create_agent">>)
       ELSE /\ Len(agent) < FleetSize(config)
            /\ LET a == Len(agent) + 1
                   ag == Start(InitAgent(config), goal, clock)
               IN /\ agent' = Append(agent, ag)
                  /\ task' = Append(task, [pc |-> "spawned", idx |-> 0,
                                           cancel |-> FALSE, wrapped |-> TRUE])
                  /\ registry' = RegisterAgent(registry, a, a)
                  /\ runningTasks' = runningTasks \cup {a}
                  /\ lastCall' = [Called("start_autonomous_agent", a, goal, "",
                                         <<GetStatus(a, ag, clock)>>)
                                     EXCEPT !.name = name, !.did = StartCalls]
            /\ UNCHANGED <<lock, stopAll, config, regCalls, clock>>

\* AgentFactory.start_autonomous_agent for the autonomous configuration
StartAutonomousAgent(goal) == StartAutonomousAgentFor("designer", goal)

\* AutonomousAgent.start called on an existing instance
AgentStart(a, goal) ==
    /\ CanCall
    /\ a \in Existing
    /\ IF StartRaises(agent[a])
       THEN /\ lastCall' = Called("start", a, goal, "Agent is already running", <<>>)
            /\ UNCHANGED agent
       ELSE LET ag == Start(agent[a], goal, clock) IN
            /\ agent' = [agent EXCEPT ![a] = ag]
            /\ lastCall' = Called("start", a, goal, "", <<GetStatus(a, ag, clock)>>)
    /\ UNCHANGED <<task, registry, lock, stopAll, runningTasks, config, regCalls, clock>>

\* AutonomousAgent.stop called on an existing instance
AgentStop(a) ==
    /\ CanCall
    /\ a \in Existing
    /\ LET ag == Stop(agent[a], clock) IN
       /\ agent' = [agent EXCEPT ![a] = ag]
       /\ lastCall' = Called("stop", a, <<>>, "", <<GetStatus(a, ag, clock)>>)
    /\ UNCHANGED <<task, registry, lock, stopAll, runningTasks, config, regCalls, clock>>

\* a caller that holds the instance awaits run_loop() itself, once per
\* start() and never while another run_loop of the instance is alive
AgentRunLoop(a) ==
    /\ CanCall
    /\ a \in Existing
    /\ ~Live(task[a])
    /\ agent[a].loop_exit = "none"
    /\ agent[a].state # CREATED
    /\ task' = [task EXCEPT ![a] = [pc |-> "spawned", idx |-> 0,
                                    cancel |-> FALSE, wrapped |-> FALSE]]
    /\ lastCall' = Called("run_loop", a, <<>>, "", <<>>)
    /\ UNCHANGED <<agent, registry, lock, stopAll, runningTasks, config, regCalls, clock>>

\* AgentFactory.stop_agent (lines 217-232)
StopAgent(k) ==
    /\ CanCall
    /\ IF GetAgent(registry, k) = <<>>
       THEN /\ lastCall' = Called("stop_agent", k, <<>>, "", <<>>)
            /\ UNCHANGED <<agent, task, runningTasks>>
       ELSE LET a == registry[k]
                ag == Stop(agent[a], clock)
            IN /\ agent' = [agent EXCEPT ![a] = ag]
               /\ lastCall' = Called("stop_agent", k, <<>>, "",
                                     <<GetStatus(a, ag, clock)>>)
               /\ IF k \in runningTasks
                  THEN /\ task' = [task EXCEPT ![k] = CancelTask(@)]
                       /\ runningTasks' = runningTasks \ {k}
                  ELSE UNCHANGED <<task, runningTasks>>
    /\ UNCHANGED <<registry, lock, stopAll, config, regCalls, clock>>

\* AgentFactory.cleanup (lines 320-328): stop_all_agents, then cancel every
\* tracked task and clear the table
Cleanup ==
    /\ CanCall
    /\ LET r == StopAllFrom(agent, registry, KeysInOrder(DOMAIN registry), clock) IN
       /\ agent' = r.agents
       /\ task' = [a \in DOMAIN task |->
                     IF a \in runningTasks THEN CancelTask(task[a]) ELSE task[a]]
       /\ runningTasks' = ClearTasks(runningTasks)
       /\ lastCall' = Called("cleanup", 0, <<>>, "", <<>>)
    /\ UNCHANGED <<registry, lock, stopAll, config, regCalls, clock>>

\* AgentRegistry.stop_all_agents (lines 93-99): "with self._lock:" entered
StopAllAcquire ==
    /\ CanCall
    /\ lock' = "held"
    /\ stopAll' = [todo |-> KeysInOrder(DOMAIN registry), stopped |-> <<>>]
    /\ lastCall' = Called("stop_all_agents", 0, <<>>, "", <<>>)
    /\ UNCHANGED <<agent, task, registry, runningTasks, config, regCalls, clock>>

\* one turn of the for loop at lines 95-98, inside the with block
StopAllVisit ==
    /\ lock = "held"
    /\ stopAll.todo # <<>>
    /\ LET k == Head(stopAll.todo)
           a == registry[k]
       IN IF StopAllSelects(agent[a])
          THEN /\ agent' = [agent EXCEPT ![a] = Stop(@, clock)]
               /\ stopAll' = [todo |-> Tail(stopAll.todo),
                              stopped |-> Append(stopAll.stopped, k)]
          ELSE /\ stopAll' = [stopAll EXCEPT !.todo = Tail(@)]
               /\ UNCHANGED agent
    /\ UNCHANGED <<task, registry, lock, runningTasks, config, regCalls, clock, lastCall>>

\* the with block is left and the list returned (line 99)
StopAllRelease ==
    /\ lock = "held"
    /\ stopAll.todo = <<>>
    /\ lock' = "free"
    /\ lastCall' = [lastCall EXCEPT !.ret = stopAll.stopped]
    /\ stopAll' = [todo |-> <<>>, stopped |-> <<>>]
    /\ UNCHANGED <<agent, task, registry, runningTasks, config, regCalls, clock>>

\* ------------------------------------------------------ the loop's steps
\* the event loop resumes the task of agent a, which goes on to r
Resume(a, r) ==
    /\ agent' = [agent EXCEPT ![a] = r.ag]
    /\ task' = [task EXCEPT ![a].pc = r.pc, ![a].idx = r.idx]
    /\ runningTasks' = IF r.pc = "done"
                       THEN UntrackOnExit(runningTasks, a, task[a])
                       ELSE runningTasks
    /\ lastCall' = Touch(a)
    /\ UNCHANGED <<registry, lock, stopAll, config, regCalls, clock>>

Runnable(a, pc) ==
    /\ lock = "free"
    /\ a \in Existing
    /\ task[a].pc = pc
    /\ ~task[a].cancel

TaskFirstStep(a) ==
    /\ Runnable(a, "spawned")
    /\ Resume(a, RunLoopBegin(agent[a], clock))

TaskPlanResume(a) ==
    /\ Runnable(a, "plan_sleep")
    /\ Resume(a, PlanResume(agent[a], clock))

RECURSIVE FailedUpTo(_)
FailedUpTo(n) == IF n = 0 THEN 0 ELSE agent[n].exec_failed + FailedUpTo(n - 1)

TaskExecResume(a, ok) ==
    /\ Runnable(a, "act_exec")
    /\ ok \/ FailedUpTo(Len(agent)) < MaxFailures
    /\ Resume(a, ExecResume(agent[a], task[a].idx, ok, clock))

TaskReportResume(a) ==
    /\ Runnable(a, "report_sleep")
    /\ Resume(a, ReportResume(agent[a], clock))

\* a cancelled task is resumed: CancelledError is thrown at its await
TaskCancelled(a) ==
    /\ lock = "free"
    /\ a \in Existing
    /\ task[a].cancel
    /\ task[a].pc \in Suspended
    /\ Resume(a, Cancelled(agent[a], clock))

\* a task cancelled before its first step never runs its coroutine: no
\* line of run_loop or _run_agent_loop executes
TaskCancelledUnstarted(a) ==
    /\ lock = "free"
    /\ a \in Existing
    /\ task[a].cancel
    /\ task[a].pc = "spawned"
    /\ task' = [task EXCEPT ![a].pc = "done"]
    /\ UNCHANGED <<agent, registry, lock, stopAll, runningTasks, config, regCalls, clock, lastCall>>

\* time passes
Tick ==
    /\ clock < MaxClock
    /\ clock' = clock + 1
    /\ UNCHANGED <<agent, task, registry, lock, stopAll, runningTasks, config, regCalls, lastCall>>

Next ==
    \/ CreateAgent
    \/ \E g \in Goals : StartAutonomousAgent(g)
    \/ \E a \in AgentIds, g \in Goals : AgentStart(a, g)
    \/ \E a \in AgentIds : AgentStop(a)
    \/ \E a \in AgentIds : AgentRunLoop(a)
    \/ \E k \in AgentIds : StopAgent(k)
    \/ StopAllAcquire
    \/ StopAllVisit
    \/ StopAllRelease
    \/ \E a \in AgentIds : TaskFirstStep(a)
    \/ \E a \in AgentIds : TaskPlanResume(a)
    \/ \E a \in AgentIds, ok \in BOOLEAN : TaskExecResume(a, ok)
    \/ \E a \in AgentIds : TaskReportResume(a)
    \/ \E a \in AgentIds : TaskCancelled(a)
    \/ \E a \in AgentIds : TaskCancelledUnstarted(a)
    \/ Tick

Spec == Init /\ [][Next]_vars

\* ------------------------------------------------- the factory's clients
\* The HTTP endpoints and the shutdown hook reach the agents through the
\* factory only: create_agent, start_autonomous_agent and stop_agent with
\* any configuration name and id, and cleanup.
\* the goals the clients send: one that plans a single action, and none
FactoryGoals == {GoalOther, GoalEmpty}

InitFactory ==
    /\ config \in [max_iterations : {1, 3}, timeout_seconds : TimeoutValues]
    /\ agent = <<>>
    /\ task = <<>>
    /\ Idle

\* the event loop runs the task of agent a one step
TaskStep(a) ==
    \/ TaskFirstStep(a)
    \/ TaskPlanResume(a)
    \/ \E ok \in BOOLEAN : TaskExecResume(a, ok)
    \/ TaskReportResume(a)
    \/ TaskCancelled(a)
    \/ TaskCancelledUnstarted(a)

NextFactory ==
    \/ \E n \in ConfigNames : CreateAgentFor(n)
    \/ \E n \in ConfigNames, g \in FactoryGoals : StartAutonomousAgentFor(n, g)
    \/ \E k \in AgentIds : StopAgent(k)
    \/ Cleanup
    \/ \E a \in AgentIds : TaskStep(a)
    \/ Tick

SpecFactory == InitFactory /\ [][NextFactory]_vars

\* The event loop keeps running: a cancellation that was requested is
\* delivered.
SpecFactoryLive ==
    /\ InitFactory
    /\ [][NextFactory]_vars
    /\ \A a \in AgentIds : WF_vars(TaskCancelled(a))

\* The event loop runs every task that is ready: a delay ends, an executor
\* call returns or fails, a cancellation is delivered.
SpecFactoryFair ==
    /\ InitFactory
    /\ [][NextFactory]_vars
    /\ \A a \in AgentIds : WF_vars(TaskStep(a))

\* ------------------------------------------------- one loop, run fairly
\* One agent is started through the factory and its loop runs with nothing
\* cancelling it; its holder may call stop().  The event loop resumes the
\* task whenever it is ready: a delay ends, an executor call returns or fails.
FirstStart(g) == agent = <<>> /\ StartAutonomousAgent(g)

LoopStep(a) ==
    \/ TaskFirstStep(a)
    \/ TaskPlanResume(a)
    \/ \E ok \in BOOLEAN : TaskExecResume(a, ok)
    \/ TaskReportResume(a)

NextSingle ==
    \/ \E g \in {GoalBox, GoalOther} : FirstStart(g)
    \/ \E a \in AgentIds : AgentStop(a)
    \/ \E a \in AgentIds : LoopStep(a)
    \/ Tick

SpecSingleFair ==
    /\ Init
    /\ [][NextSingle]_vars
    /\ \A a \in AgentIds : WF_vars(LoopStep(a))

\* ------------------------------------------------ one agent's whole run
\* An instance is started through the factory, with a goal that plans one
\* action, with no goal, or with the goal whose plan phase fails; its holder may call
\* stop(), start() and run_loop() on it and the factory's stop_agent.
RunGoals == {GoalOther, GoalEmpty, GoalNotText}

InitRun ==
    /\ config \in [max_iterations : {1, 3}, timeout_seconds : TimeoutValues]
    /\ agent = <<>>
    /\ task = <<>>
    /\ Idle

NextRun ==
    \/ \E g \in RunGoals : StartAutonomousAgent(g)
    \/ \E a \in AgentIds : AgentStart(a, GoalOther)
    \/ \E a \in AgentIds : AgentStop(a)
    \/ \E a \in AgentIds : AgentRunLoop(a)
    \/ \E k \in AgentIds : StopAgent(k)
    \/ \E a \in AgentIds : TaskStep(a)
    \/ Tick

SpecRun == InitRun /\ [][NextRun]_vars

\* every operation on an agent: those of a run, stop_all_agents and cleanup
NextOps ==
    \/ NextRun
    \/ Cleanup
    \/ StopAllAcquire
    \/ StopAllVisit
    \/ StopAllRelease

SpecOps == InitRun /\ [][NextOps]_vars

\* ------------------------------------------- the report phase on its own
\* _report_phase evaluates whatever current_plan holds (a public attribute):
\* the agent is taken at the sleep of its report phase with any plan of up
\* to MaxPlanLen actions, each without status, completed or failed.
PlanStatuses == {"pending", "completed", "error"}
StatusLists == UNION {[1..n -> PlanStatuses] : n \in 0..MaxPlanLen}
PlanWithStatuses(st) ==
    [i \in 1..Len(st) |-> [NewAction("CreateSketch") EXCEPT !.status = st[i]]]

InitReport ==
    /\ config \in [max_iterations : {1, 3}, timeout_seconds : TimeoutValues]
    /\ \E st \in StatusLists :
          agent = <<[Start(InitAgent(config), GoalOther, 1)
                        EXCEPT !.running = TRUE,
                               !.state = REPORTING,
                               !.current_plan = PlanWithStatuses(st)]>>
    /\ task = <<[pc |-> "report_sleep", idx |-> 0, cancel |-> FALSE, wrapped |-> FALSE]>>
    /\ Idle

\* the loop goes on from there
NextLoop ==
    \/ \E a \in AgentIds : TaskPlanResume(a)
    \/ \E a \in AgentIds, ok \in BOOLEAN : TaskExecResume(a, ok)
    \/ \E a \in AgentIds : TaskReportResume(a)
    \/ Tick

SpecReport == InitReport /\ [][NextLoop]_vars

\* --------------------------------------------- the plan strategy on its own
\* _create_plan_for_goal is called with a goal of its own choosing, as the
\* repository's test does, on an instance that is not running.
GoalWords ==
    { <<"b", "o", "x">>,
      <<"B", "o", "x">>,
      <<"B", "O", "X">>,
      <<"c", "u", "b", "e">>,
      <<"C", "u", "B", "e">>,
      <<"c", "i", "r", "c", "l", "e">>,
      <<"C", "i", "r", "c", "l", "e">>,
      <<"C", "I", "R", "C", "L", "E">>,
      <<"c", "y", "l", "i", "n", "d", "e", "r">>,
      <<"C", "Y", "L", "I", "N", "D", "E", "R">>,
      <<"g", "e", "a", "r">>,
      <<"b", "o", " ", "x">>,
      <<"c", "u", "b">>,
      <<"c", "y", "l", "i", "n", "d", "r">>,
      <<"G", "e", "a", "r", " ", "B", "o", "x">> }
GoalHeads == { <<>>, <<"a", " ">>, <<"c", "i", "r", "c", "l", "e", " ">> }
GoalTails == { <<>>, <<" ", "n", "o", "w">>, <<" ", "c", "u", "b", "e">> }
PlanGoals == {h \o w \o t : h \in GoalHeads, w \in GoalWords \cup {<<>>}, t \in GoalTails}

InitPlan ==
    /\ config \in [max_iterations : MaxIterValues, timeout_seconds : TimeoutValues]
    /\ agent = <<InitAgent(config)>>
    /\ task = <<NoTask>>
    /\ Idle

CreatePlanCall(a, goal) ==
    /\ CanCall
    /\ a \in Existing
    /\ lastCall' = Called("_create_plan_for_goal", a, goal, "",
                          <<PlanNames(CreatePlanForGoal(goal))>>)
    /\ UNCHANGED <<agent, task, registry, lock, stopAll, runningTasks, config, clock,
                   regCalls>>

NextPlan == \E a \in AgentIds, g \in PlanGoals : CreatePlanCall(a, g)

SpecPlan == InitPlan /\ [][NextPlan]_vars

\* ------------------------------------------------ the registry on its own
\* A client registers, unregisters and looks up instances under ids of
\* its choosing, as the repository's registry tests do.  Instances are
\* object identities.
Instances == 1..NumAgents

InitRegistry ==
    /\ config = [max_iterations |-> 3, timeout_seconds |-> DefaultTimeoutSeconds]
    /\ agent = <<>>
    /\ task = <<>>
    /\ Idle

CanCallRegistry == lock = "free" /\ Len(regCalls) < MaxRegCalls

RegistryRegister(k, x) ==
    /\ CanCallRegistry
    /\ registry' = RegisterAgent(registry, k, x)
    /\ lastCall' = Called("register_agent", k, <<>>, "", <<>>)
    /\ regCalls' = Append(regCalls, [op |-> "register_agent", key |-> k, inst |-> x])
    /\ UNCHANGED <<agent, task, lock, stopAll, runningTasks, config, clock>>

RegistryUnregister(k) ==
    /\ CanCallRegistry
    /\ registry' = UnregisterAgent(registry, k)
    /\ lastCall' = Called("unregister_agent", k, <<>>, "", GetAgent(registry, k))
    /\ regCalls' = Append(regCalls, [op |-> "unregister_agent", key |-> k, inst |-> 0])
    /\ UNCHANGED <<agent, task, lock, stopAll, runningTasks, config, clock>>

RegistryGet(k) ==
    /\ CanCallRegistry
    /\ lastCall' = Called("get_agent", k, <<>>, "", GetAgent(registry, k))
    /\ regCalls' = Append(regCalls, [op |-> "get_agent", key |-> k, inst |-> 0])
    /\ UNCHANGED <<agent, task, registry, lock, stopAll, runningTasks, config, clock>>

NextRegistry ==
    \/ \E k \in AgentIds, x \in Instances : RegistryRegister(k, x)
    \/ \E k \in AgentIds : RegistryUnregister(k)
    \/ \E k \in AgentIds : RegistryGet(k)

SpecRegistry == InitRegistry /\ [][NextRegistry]_vars

\* ------------------------------------------------------------ properties
\* the step is a call of op on instance a
CallStep(op, a) ==
    /\ lastCall'.seq = lastCall.seq + 1
    /\ lastCall'.op = op
    /\ lastCall'.agent = a

ContainsBox(goal) == Contains(LowerStr(goal), <<"b", "o", "x">>)
LogPhases(ag) == [i \in 1..Len(ag.execution_log) |-> ag.execution_log[i].phase]
AllStatus(plan, st) == \A i \in 1..Len(plan) : plan[i].status = st

\* the run begun by the last start() returned from run_loop, with no stop
\* requested and the time budget not used up
RanToCompletion(ag) ==
    /\ ag.loop_exit = "returned"
    /\ ~ag.stop_requested
    /\ CheckTimeout(ag, clock)

\* C1: no AgentRegistry operation holds the registry lock while it executes
\* a method of an agent: while the lock is held, stop_all_agents has called
\* stop() on no agent yet.
C1_NoAgentCallUnderLock == lock = "held" => stopAll.stopped = <<>>

\* C2: start() called while running is true fails with the already-running
\* error, returns nothing and changes no field of the agent.
C2_StartWhileRunningFails ==
    [][\A a \in AgentIds :
          (CallStep("start", a) /\ agent[a].running)
          => /\ lastCall'.raised = "Agent is already running"
             /\ lastCall'.ret = <<>>
             /\ agent'[a] = agent[a]]_vars

C2_Witness ==
    /\ lastCall.op = "start"
    /\ lastCall.raised = "Agent is already running"
    /\ agent[lastCall.agent].running

\* C3: start() succeeds only when the state is CREATED, COMPLETED, ERROR or
\* STOPPED and no loop task of the agent is alive (spawned and not finished).
C3_StartOnlyWhenIdle ==
    [][\A a \in AgentIds :
          (CallStep("start", a) /\ lastCall'.raised = "")
          => /\ agent[a].state \in {CREATED} \cup TerminalStates
             /\ ~Live(task[a])]_vars

\* C4: a successful start(goal) leaves state PLANNING, the goal, startTime
\* now, stopRequested false, iterationsCompleted 0, no errorMessage, an
\* empty executionLog and an empty currentPlan; it runs no phase and returns
\* the snapshot of these fields.
C4_StartResetsRun ==
    [][\A a \in AgentIds :
          (CallStep("start", a) /\ lastCall'.raised = "")
          => /\ agent'[a].state = PLANNING
             /\ agent'[a].current_goal = lastCall'.arg
             /\ agent'[a].start_time = clock
             /\ ~agent'[a].stop_requested
             /\ agent'[a].iterations_completed = 0
             /\ agent'[a].error_message = None
             /\ agent'[a].execution_log = <<>>
             /\ agent'[a].current_plan = <<>>
             /\ task' = task
             /\ lastCall'.ret = <<GetStatus(a, agent'[a], clock)>>]_vars

\* C5: stop() sets stopRequested; from CREATED, PLANNING, ACTING or
\* REPORTING it sets state STOPPED and endTime now and returns a snapshot
\* with state stopped; from COMPLETED, ERROR or STOPPED it leaves state and
\* endTime as they are.
C5_StopContract ==
    [][\A a \in AgentIds :
          CallStep("stop", a)
          => /\ agent'[a].stop_requested
             /\ IF agent[a].state \in {CREATED, PLANNING, ACTING, REPORTING}
                THEN /\ agent'[a].state = STOPPED
                     /\ agent'[a].end_time = clock
                     /\ lastCall'.ret[1].state = STOPPED
                ELSE /\ agent'[a].state = agent[a].state
                     /\ agent'[a].end_time = agent[a].end_time]_vars

C5_Witness ==
    /\ lastCall.op = "stop"
    /\ ~lastCall.touched
    /\ agent[lastCall.agent].running
    /\ agent[lastCall.agent].state = STOPPED
    /\ agent[lastCall.agent].end_time = clock
    /\ lastCall.ret[1].state = STOPPED

\* C6: a stop() that directly follows a stop() of the same agent which
\* returned STOPPED changes no field of the agent and returns the same
\* snapshot, state STOPPED included.
C6_StopIdempotent ==
    [][\A a \in AgentIds :
          (/\ CallStep("stop", a)
           /\ lastCall.op = "stop"
           /\ lastCall.agent = a
           /\ ~lastCall.touched
           /\ lastCall.ret[1].state = STOPPED)
          => /\ agent'[a] = agent[a]
             /\ lastCall'.ret = lastCall.ret
             /\ lastCall'.ret[1].state = STOPPED]_vars

C6_Witness ==
    /\ lastCall.op = "stop"
    /\ lastCall.repeat
    /\ lastCall.ret[1].state = STOPPED
    /\ clock > agent[lastCall.agent].end_time

\* C7: 0 <= iterationsCompleted <= maxIterations in every reachable state,
\* for every configured maxIterations.
C7_IterationsWithinBounds ==
    \A a \in Existing :
        /\ 0 <= agent[a].iterations_completed
        /\ agent[a].iterations_completed <= agent[a].max_iterations

\* C8: goal containing "box", maxIterations 3, every executor call
\* succeeds, no stop, no timeout: the run ends after exactly one plan, act,
\* report cycle as COMPLETED, the plan is CreateSketch, DrawRectangle,
\* Extrude, all completed, and the executor was invoked three times.
C8_BoxScenario(ag) ==
    /\ RanToCompletion(ag)
    /\ ContainsBox(ag.current_goal)
    /\ ag.max_iterations = 3
    /\ ag.exec_failed = 0

C8_BoxCompletesInOneCycle ==
    \A a \in Existing :
        C8_BoxScenario(agent[a])
        => /\ agent[a].state = COMPLETED
           /\ LogPhases(agent[a]) = <<"plan", "act", "report">>
           /\ PlanNames(agent[a].current_plan)
                  = <<"CreateSketch", "DrawRectangle", "Extrude">>
           /\ AllStatus(agent[a].current_plan, "completed")
           /\ agent[a].exec_calls = 3
           /\ ~agent[a].running

C8_Witness == \E a \in Existing : C8_BoxScenario(agent[a])

\* C9: every executor call fails, no stop, no timeout: the run ends with
\* iterationsCompleted = maxIterations, state COMPLETED, no errorMessage and
\* every action of the last plan marked error.
C9_AllFailRunsToExhaustion ==
    \A a \in Existing :
        (/\ RanToCompletion(agent[a])
         /\ agent[a].exec_failed = agent[a].exec_calls)
        => /\ agent[a].iterations_completed = agent[a].max_iterations
           /\ agent[a].state = COMPLETED
           /\ agent[a].error_message = None
           /\ AllStatus(agent[a].current_plan, "error")

\* C10: start(goal) then run_loop() to completion with every executor call
\* succeeding (the test's configuration: maxIterations 3, a box goal) leaves
\* iterations_completed > 0 and a non-empty execution log.
C10_SuccessfulRunCountsIteration ==
    \A a \in Existing :
        C8_BoxScenario(agent[a])
        => /\ agent[a].iterations_completed > 0
           /\ Len(agent[a].execution_log) > 0

\* the step is the report phase of agent a resuming after its sleep and
\* logging its report
ReportStep(a) ==
    /\ a \in Existing
    /\ task[a].pc = "report_sleep"
    /\ Len(agent'[a].execution_log) = Len(agent[a].execution_log) + 1

LastLog(ag) == ag.execution_log[Len(ag.execution_log)]

\* C11: every report has goalCompleted = (totalActions > 0 and
\* actionsCompleted = totalActions), with totalActions the length of the
\* current plan and actionsCompleted the number of its actions marked
\* completed; successRate = actionsCompleted / totalActions, and 0 when
\* totalActions = 0.
C11_ReportContract ==
    [][\A a \in AgentIds :
          ReportStep(a)
          => LET r == LastLog(agent'[a]).report
                 plan == agent[a].current_plan
                 done == {i \in DOMAIN plan : plan[i].status = "completed"}
             IN /\ LastLog(agent'[a]).phase = "report"
                /\ r.total_actions = Len(plan)
                /\ r.actions_completed = Cardinality(done)
                /\ r.goal_completed
                      = (r.total_actions > 0 /\ r.actions_completed = r.total_actions)
                /\ r.success_rate.den > 0
                /\ IF r.total_actions = 0
                   THEN r.success_rate.num = 0
                   ELSE r.success_rate.num * r.total_actions
                          = r.actions_completed * r.success_rate.den]_vars

\* the report of an empty plan has been logged
C11_Witness ==
    /\ Len(agent) = 1
    /\ Len(agent[1].execution_log) = 1
    /\ LastLog(agent[1]).phase = "report"
    /\ LastLog(agent[1]).report.total_actions = 0
    /\ LastLog(agent[1]).report.success_rate = IntZero
    /\ ~LastLog(agent[1]).report.goal_completed

\* goal contains word, whatever the case of its letters
Mentions(goal, word) ==
    \E i \in 0..(Len(goal) - Len(word)) :
        \A j \in 1..Len(word) :
            \/ goal[i + j] = word[j]
            \/ \E k \in DOMAIN LowerCase :
                   LowerCase[k] = word[j] /\ UpperCase[k] = goal[i + j]

\* C12: the plan strategy returns, for every goal, CreateSketch,
\* DrawRectangle, Extrude when the goal mentions box or cube in any case;
\* otherwise CreateSketch, DrawCircle, Extrude when it mentions circle or
\* cylinder; otherwise the single action CreateSketch.
C12_PlanForGoal ==
    lastCall.op = "_create_plan_for_goal"
    => LET goal == lastCall.arg
           plan == lastCall.ret[1]
       IN /\ Len(plan) > 0
          /\ plan = IF Mentions(goal, <<"b", "o", "x">>)
                       \/ Mentions(goal, <<"c", "u", "b", "e">>)
                    THEN <<"CreateSketch", "DrawRectangle", "Extrude">>
                    ELSE IF Mentions(goal, <<"c", "i", "r", "c", "l", "e">>)
                            \/ Mentions(goal, <<"c", "y", "l", "i", "n", "d", "e", "r">>)
                    THEN <<"CreateSketch", "DrawCircle", "Extrude">>
                    ELSE <<"CreateSketch">>

\* a goal that names a circle and, in capitals, a box got the box plan
C12_Witness ==
    /\ lastCall.op = "_create_plan_for_goal"
    /\ lastCall.arg = <<"c", "i", "r", "c", "l", "e", " ", "B", "O", "X">>
    /\ lastCall.ret[1] = <<"CreateSketch", "DrawRectangle", "Extrude">>

\* what the calls of log say is registered under k: the instance of the most
\* recent register_agent(k, x) that no unregister_agent(k) follows, else
\* nothing
RECURSIVE LastRegistered(_, _)
LastRegistered(log, k) ==
    IF log = <<>> THEN <<>>
    ELSE LET e == log[Len(log)] IN
         IF e.key = k /\ e.op = "register_agent" THEN <<e.inst>>
         ELSE IF e.key = k /\ e.op = "unregister_agent" THEN <<>>
         ELSE LastRegistered(SubSeq(log, 1, Len(log) - 1), k)

\* C13: registry map semantics.  After any sequence of calls the registry
\* holds under each id what LastRegistered says; get_agent and
\* unregister_agent return it (nothing for an id not registered) without
\* raising; get_agent, and unregister_agent of an id not registered, leave
\* the map as it was.
C13_RegistryMapSemantics ==
    [][regCalls' # regCalls
       => LET e == regCalls'[Len(regCalls')]
              before == LastRegistered(regCalls, e.key)
          IN /\ \A k \in AgentIds : GetAgent(registry', k) = LastRegistered(regCalls', k)
             /\ DOMAIN registry' \subseteq AgentIds
             /\ lastCall'.raised = ""
             /\ e.op \in {"get_agent", "unregister_agent"} => lastCall'.ret = before
             /\ e.op = "unregister_agent" => e.key \notin DOMAIN registry'
             /\ (e.op = "get_agent" \/ (e.op = "unregister_agent" /\ before = <<>>))
                => registry' = registry]_vars

\* register(a, x), unregister(a), get(a) has returned not-found
C13_Witness ==
    /\ Len(regCalls) = 3
    /\ regCalls[1] = [op |-> "register_agent", key |-> 1, inst |-> 2]
    /\ regCalls[2].op = "unregister_agent" /\ regCalls[2].key = 1
    /\ regCalls[3].op = "get_agent" /\ regCalls[3].key = 1
    /\ lastCall.ret = <<>>

\* the registered agents whose running flag is set
RunningRegistered == {k \in DOMAIN registry : agent[registry[k]].running}
SeqToSet(q) == {q[i] : i \in DOMAIN q}

\* C14: stop_all_agents calls stop() on exactly the registered agents whose
\* running flag is set and returns exactly their ids: each of them ends with
\* stop_requested and state STOPPED, an agent that is not running is left
\* as it was, and no registry entry is removed.
C14_StopAllStopsRunning ==
    [][/\ (lock = "held" /\ lock' = "held" /\ stopAll' # stopAll)
          => \A a \in Existing :
                IF agent[a].running /\ a = registry[Head(stopAll.todo)]
                THEN /\ agent'[a].stop_requested
                     /\ agent'[a].state = STOPPED
                     /\ agent'[a].running
                ELSE agent'[a] = agent[a]
       /\ (lock = "held" /\ lock' = "free")
          => /\ SeqToSet(lastCall'.ret) = RunningRegistered
             /\ Len(lastCall'.ret) = Cardinality(RunningRegistered)
             /\ \A k \in RunningRegistered :
                   agent[registry[k]].stop_requested /\ agent[registry[k]].state = STOPPED
             /\ agent' = agent
       /\ lock = "held" => registry' = registry]_vars

\* stop_all_agents has returned the ids of two running agents
C14_Witness ==
    /\ lastCall.op = "stop_all_agents"
    /\ lock = "free"
    /\ lastCall.ret = <<1, 2>>
    /\ \A a \in {1, 2} : agent[a].running /\ agent[a].state = STOPPED

\* the step is a call of op with configuration name n
NamedCallStep(op, n) ==
    /\ lastCall'.seq = lastCall.seq + 1
    /\ lastCall'.op = op
    /\ lastCall'.name = n

\* what the provider and the validator say about configuration n
Provided(n) == ParserGetAgent(n, config)
HasNoConfig(n) == Provided(n) = <<>> \/ DOMAIN Provided(n)[1] = {}
IsInvalid(n) == ~HasNoConfig(n) /\ ValidateAgentConfig(Provided(n)[1]) # <<>>
IsAutonomousConfig(n) ==
    /\ ~HasNoConfig(n)
    /\ "autonomous" \in DOMAIN Provided(n)[1]
    /\ Provided(n)[1].autonomous = "True"

\* the messages, in order, with "; " between each two
RECURSIVE Separated(_)
Separated(msgs) ==
    IF Len(msgs) = 1 THEN msgs[1]
    ELSE Separated(SubSeq(msgs, 1, Len(msgs) - 1)) \o <<"; ">> \o msgs[Len(msgs)]

\* the step registers nothing, tracks nothing and spawns no task
NothingRegisteredOrSpawned ==
    /\ registry' = registry
    /\ runningTasks' = runningTasks
    /\ \A a \in DOMAIN task' : a \in DOMAIN task => task'[a] = task[a]
    /\ \A a \in DOMAIN task' : a \notin DOMAIN task => ~Live(task'[a])

C16_StartRefusedChangesNothing ==
    [][\A n \in ConfigNames :
          (/\ NamedCallStep("start_autonomous_agent", n)
           /\ (HasNoConfig(n) \/ IsInvalid(n) \/ ~IsAutonomousConfig(n)))
          => /\ lastCall'.raised # ""
             /\ lastCall'.ret = <<>>
             /\ registry' = registry
             /\ runningTasks' = runningTasks
             /\ agent' = agent
             /\ task' = task]_vars

\* start_autonomous_agent has refused a basic configuration, with an agent
\* registered and its task tracked
C16_Witness ==
    /\ lastCall.op = "start_autonomous_agent"
    /\ lastCall.name = "helper"
    /\ lastCall.raised = "Agent is not configured as autonomous"
    /\ DOMAIN registry = {1}
    /\ runningTasks = {1}

\* C17: a successful start_autonomous_agent(name, goal) registers the new
\* agent under its id, calls start(goal), spawns exactly one task running
\* run_loop and tracks it under the same id, in this order; it returns the
\* snapshot of start() (planning, 0 iterations, the goal) before the loop
\* has run, and get_agent_status of the id then finds the agent.
C17_StartAutonomousAgentContract ==
    [][\A n \in ConfigNames :
          (NamedCallStep("start_autonomous_agent", n) /\ lastCall'.raised = "")
          => LET a == lastCall'.agent IN
             /\ lastCall'.did = <<"create_agent", "register_agent", "start",
                                  "create_task", "track_task">>
             /\ a \notin DOMAIN registry
             /\ DOMAIN registry' = DOMAIN registry \cup {a}
             /\ \A k \in DOMAIN registry : registry'[k] = registry[k]
             /\ registry'[a] = Len(agent')
             /\ Len(agent') = Len(agent) + 1
             /\ \A b \in Existing : agent'[b] = agent[b] /\ task'[b] = task[b]
             /\ Len(task') = Len(task) + 1
             /\ task'[a].pc = "spawned"
             /\ runningTasks' = runningTasks \cup {a}
             /\ lastCall'.ret = <<GetStatus(a, agent'[a], clock)>>
             /\ lastCall'.ret[1].state = PLANNING
             /\ lastCall'.ret[1].iterations_completed = 0
             /\ lastCall'.ret[1].current_goal = lastCall'.arg
             /\ ~agent'[a].running
             /\ agent'[a].execution_log = <<>>
             /\ GetAgentStatus(registry', agent', a, clock') # <<>>]_vars

\* a second agent has been started next to a running one
C17_Witness ==
    /\ lastCall.op = "start_autonomous_agent"
    /\ lastCall.raised = ""
    /\ lastCall.agent = 2
    /\ task[2].pc = "spawned"
    /\ agent[1].running
    /\ DOMAIN registry = {1, 2}

\* stop_agent(a) found the agent and has returned; no call was made since
StopAgentReturned(a) ==
    /\ a \in Existing
    /\ lastCall.op = "stop_agent"
    /\ lastCall.agent = a
    /\ lastCall.ret # <<>>

\* C18: stop_agent(id) of an id that is not registered returns not-found and
\* changes nothing.  On a registered agent it calls stop(), cancels the task
\* if one is tracked and drops it from the table, and returns a snapshot in
\* a terminal state (STOPPED, or the terminal state the agent had).  Once an
\* agent has been stopped through the factory its loop runs no further phase
\* (no log entry, no plan, no executor call), and running becomes false.
C18_StopAgentContract ==
    /\ [][\A k \in AgentIds :
             /\ (CallStep("stop_agent", k) /\ GetAgent(registry, k) = <<>>)
                => /\ lastCall'.ret = <<>>
                   /\ lastCall'.raised = ""
                   /\ agent' = agent
                   /\ task' = task
                   /\ registry' = registry
                   /\ runningTasks' = runningTasks
             /\ (CallStep("stop_agent", k) /\ GetAgent(registry, k) # <<>>)
                => LET a == registry[k] IN
                   /\ lastCall'.raised = ""
                   /\ agent'[a] = Stop(agent[a], clock)
                   /\ agent'[a].stop_requested
                   /\ lastCall'.ret = <<GetStatus(a, agent'[a], clock)>>
                   /\ lastCall'.ret[1].state
                        = IF agent[a].state \in TerminalStates
                          THEN agent[a].state ELSE STOPPED
                   /\ k \notin runningTasks'
                   /\ runningTasks' \cup {k} = runningTasks \cup {k}
                   /\ (k \in runningTasks /\ Live(task[k])) => task'[k].cancel
                   /\ \A b \in Existing \ {a} : agent'[b] = agent[b]
                   /\ \A b \in Existing \ {k} : task'[b] = task[b]
                   /\ registry' = registry
             /\ (k \in Existing /\ agent[k].stop_requested)
                => /\ agent'[k].execution_log = agent[k].execution_log
                   /\ agent'[k].current_plan = agent[k].current_plan
                   /\ agent'[k].exec_calls = agent[k].exec_calls
                   /\ agent'[k].state = agent[k].state
                   /\ agent'[k].running => agent[k].running]_vars
    /\ \A a \in AgentIds :
          StopAgentReturned(a) ~> (a \in Existing /\ ~agent[a].running)

\* stop_agent returned the snapshot of an agent whose loop was running, and
\* the loop has since ended by cancellation, its act phase never logged
C18_Witness ==
    /\ lastCall.op = "stop_agent"
    /\ lastCall.ret # <<>>
    /\ lastCall.ret[1].running
    /\ lastCall.ret[1].state = STOPPED
    /\ ~agent[lastCall.agent].running
    /\ agent[lastCall.agent].loop_exit = "cancelled"
    /\ task[lastCall.agent].pc = "done"
    /\ LogPhases(agent[lastCall.agent]) = <<"plan">>

\* C19: cleanup() stops every registered agent whose running flag is set,
\* requests cancellation of every tracked task and leaves the task table
\* empty; a cleanup() that follows a cleanup(), no other call in between,
\* changes no agent, no registry entry and no task.
C19_CleanupContract ==
    [][CallStep("cleanup", 0)
       => /\ \A k \in DOMAIN registry :
                IF agent[registry[k]].running
                THEN /\ agent'[registry[k]].stop_requested
                     /\ agent'[registry[k]].state = STOPPED
                ELSE agent'[registry[k]] = agent[registry[k]]
          /\ \A a \in runningTasks : Live(task[a]) => task'[a].cancel
          /\ \A a \in Existing \ runningTasks : task'[a] = task[a]
          /\ runningTasks' = {}
          /\ registry' = registry
          /\ lastCall.op = "cleanup"
             => /\ agent' = agent
                /\ task' = task
                /\ runningTasks' = runningTasks]_vars

\* a second cleanup() has run, later than the first, over an agent the
\* first one stopped and whose cancelled loop has not been resumed yet
C19_Witness ==
    /\ lastCall.op = "cleanup"
    /\ lastCall.repeat
    /\ \E a \in Existing :
          /\ agent[a].running
          /\ agent[a].state = STOPPED
          /\ task[a].cancel
          /\ agent[a].end_time < clock

\* C20: while running is true, elapsed_time as get_status() reports it never
\* decreases from one state to the next, the step being anything: time
\* passing, a phase, a stop() during the loop, the loop's finalization.
C20_ElapsedTimeMonotone ==
    [][\A a \in AgentIds :
          (a \in Existing /\ agent[a].running)
          => GetStatus(a, agent'[a], clock').elapsed_time
               >= GetStatus(a, agent[a], clock).elapsed_time]_vars

\* a loop that was stopped in mid-run at one time has been finalized at a
\* later one
C20_Witness ==
    \E a \in Existing :
        /\ ~agent[a].running
        /\ agent[a].loop_exit = "returned"
        /\ agent[a].stop_requested
        /\ agent[a].state = STOPPED
        /\ Len(agent[a].execution_log) > 0
        /\ agent[a].start_time = 1
        /\ agent[a].end_time = MaxClock
        /\ GetStatus(a, agent[a], clock).elapsed_time = MaxClock - 1

\* ----------------------------------------------------- the run of a loop
\* the event loop resumes the task of agent a at the await where it is
\* suspended, with no cancellation pending
ResumeStep(a, pc) ==
    /\ a \in Existing
    /\ task[a].pc = pc
    /\ ~task[a].cancel
    /\ task'[a] # task[a]
    /\ task'[a].cancel = task[a].cancel

TimeoutText == <<"Execution timeout exceeded">>

\* C21: a failure raised in a phase of a running loop (here the plan phase,
\* on a goal that is no text) is absorbed: in the step where it is raised
\* the state becomes ERROR, error_message holds the failure's text, running
\* is false, run_loop returns, the task ends without an exception and is
\* untracked, and the record of the caller's last call keeps its outcome.  A
\* failing Tool Executor invocation marks its own action "error", leaves the
\* other actions and error_message alone, and the agent is in ERROR after
\* the step only by the timeout.
C21_FailuresAbsorbed ==
    [][\A a \in AgentIds :
        /\ (ResumeStep(a, "plan_sleep") /\ CreatePlanRaises(agent[a].current_goal)) =>
              /\ agent'[a].state = ERROR
              /\ agent'[a].error_message = NoLowerText
              /\ ~agent'[a].running
              /\ agent'[a].loop_exit = "returned"
              /\ task'[a].pc = "done"
              /\ TaskOutcome(task'[a], agent'[a]) = "returned"
              /\ task[a].wrapped => a \notin runningTasks'
              /\ lastCall'.raised = lastCall.raised /\ lastCall'.ret = lastCall.ret
        /\ (ResumeStep(a, "act_exec")
               /\ agent'[a].exec_failed = agent[a].exec_failed + 1) =>
              LET i == task[a].idx IN
              /\ agent'[a].current_plan[i].status = "error"
              /\ \A j \in DOMAIN agent[a].current_plan \ {i} :
                     agent'[a].current_plan[j] = agent[a].current_plan[j]
              /\ agent'[a].error_message \in {agent[a].error_message, TimeoutText}
              /\ agent'[a].state = ERROR => agent'[a].error_message = TimeoutText
              /\ agent'[a].loop_exit # "raised"
      ]_vars

\* a background task whose plan phase failed has ended in ERROR
C21_Witness ==
    \E a \in Existing :
        /\ task[a].wrapped /\ task[a].pc = "done"
        /\ agent[a].state = ERROR
        /\ agent[a].error_message = NoLowerText
        /\ agent[a].loop_exit = "returned"

\* C22: whatever ended a run of the loop (run_loop returned, or was
\* cancelled at an await), running is false and end_time was assigned
\* exactly once since the start() of that run, also when stop() was called
\* during the run.
C22_FinalisedOnce ==
    \A a \in Existing :
        agent[a].loop_exit \in {"returned", "cancelled"} =>
            ~agent[a].running /\ agent[a].end_stamps = 1

GoalCompletedInRun(ag) ==
    /\ ag.execution_log # <<>>
    /\ LastLog(ag).phase = "report"
    /\ LastLog(ag).report.goal_completed

\* C24: in the step where run_loop returns with no stop requested and the
\* goal not completed: if iterations_completed is below max_iterations (so
\* the time budget is used up), the state is ERROR with error_message
\* 'Execution timeout exceeded'; if iterations_completed has reached
\* max_iterations, the state is COMPLETED with no error_message, also when
\* the time budget is used up as well.
C24_FinalStateByCause ==
    [][\A a \in AgentIds :
        (/\ a \in Existing
         /\ agent[a].loop_exit = "none"
         /\ agent'[a].loop_exit = "returned"
         /\ ~agent'[a].stop_requested
         /\ ~GoalCompletedInRun(agent'[a])
         /\ agent'[a].error_message # NoLowerText) =>
            LET ag == agent'[a] IN
            IF ag.iterations_completed >= ag.max_iterations
            THEN ag.state = COMPLETED /\ ag.error_message = None
            ELSE /\ ~CheckTimeout(agent[a], clock)
                 /\ ag.state = ERROR
                 /\ ag.error_message = TimeoutText
      ]_vars

\* a run that ended COMPLETED on its iteration limit although its time
\* budget was used up as well
C24_Witness ==
    \E a \in Existing :
        /\ agent[a].loop_exit = "returned"
        /\ ~agent[a].stop_requested
        /\ ~GoalCompletedInRun(agent[a])
        /\ agent[a].max_iterations >= 0
        /\ agent[a].iterations_completed >= agent[a].max_iterations
        /\ agent[a].end_time - agent[a].start_time >= agent[a].timeout_seconds
        /\ agent[a].state = COMPLETED
        /\ agent[a].error_message = None

C26_StopEndsLoopAtNextCheck ==
    [][\A a \in AgentIds :
        (a \in Existing /\ agent[a].stop_requested /\ agent'[a].stop_requested) =>
            LET ag == agent[a]
                ag2 == agent'[a]
            IN /\ ag2.exec_calls = ag.exec_calls
               /\ ag2.state = ag.state
               /\ \A pc \in Suspended \cup {"spawned"} :
                     ResumeStep(a, pc) =>
                        /\ task'[a].pc = "done"
                        /\ ~ag2.running
                        /\ LogPhases(ag2) =
                             LogPhases(ag) \o [spawned |-> <<>>,
                                               plan_sleep |-> <<"plan">>,
                                               act_exec |-> <<"act">>,
                                               report_sleep |-> <<"report">>][pc]
                        /\ pc = "act_exec" =>
                              ag2.current_plan[task[a].idx].status # "pending"
               /\ (ag.loop_exit = "none" /\ ag2.loop_exit # "none") => ag2.state = STOPPED
      ]_vars

\* stop() was called during the first of three executor calls: the call
\* finished, the act phase logged, and the run ended STOPPED with two
\* actions never started
C26_Witness ==
    \E a \in Existing :
        /\ agent[a].stop_requested
        /\ agent[a].loop_exit = "returned"
        /\ agent[a].state = STOPPED
        /\ LogPhases(agent[a]) = <<"plan", "act">>
        /\ Len(agent[a].current_plan) = 3
        /\ agent[a].exec_calls = 1
        /\ agent[a].current_plan[1].status # "pending"
        /\ agent[a].current_plan[2].status = "pending"

\* the step is made by an actor other than an agent's loop task and other
\* than start(): stop(), stop_agent, cleanup, or stop_all_agents at work
OtherActorStep ==
    \/ /\ lastCall'.seq # lastCall.seq
       /\ lastCall'.op \in {"stop", "stop_agent", "cleanup", "stop_all_agents"}
    \/ stopAll' # stopAll

\* C27: a step of another actor changes none of an agent's state, end_time,
\* current_plan, execution_log and iterations_completed (it may set
\* stop_requested).
C27_OnlyLoopWritesAgent ==
    [][OtherActorStep =>
        \A a \in Existing :
            /\ agent'[a].state = agent[a].state
            /\ agent'[a].end_time = agent[a].end_time
            /\ agent'[a].current_plan = agent[a].current_plan
            /\ agent'[a].execution_log = agent[a].execution_log
            /\ agent'[a].iterations_completed = agent[a].iterations_completed
      ]_vars

\* C28: once an agent's state is COMPLETED, ERROR or STOPPED, no step other
\* than a start() of that agent changes its state, execution_log,
\* current_plan (the actions' status and result with it), end_time,
\* error_message or iterations_completed.
C28_TerminalIsFrozen ==
    [][\A a \in AgentIds :
        (/\ a \in Existing
         /\ agent[a].state \in TerminalStates
         /\ ~CallStep("start", a)) =>
            /\ agent'[a].state = agent[a].state
            /\ agent'[a].execution_log = agent[a].execution_log
            /\ agent'[a].current_plan = agent[a].current_plan
            /\ agent'[a].end_time = agent[a].end_time
            /\ agent'[a].error_message = agent[a].error_message
            /\ agent'[a].iterations_completed = agent[a].iterations_completed
      ]_vars

\* the phase tags of a log that is a prefix of (plan, act, report) repeated
InPhaseOrder(phases) ==
    \A i \in DOMAIN phases : phases[i] = <<"plan", "act", "report">>[((i - 1) % 3) + 1]

\* the timestamps of a log never decrease
TimestampsAscend(log) ==
    \A i \in DOMAIN log : i > 1 => log[i - 1].timestamp <= log[i].timestamp

\* log2 is log with entries appended, if any
Extends(log2, log) ==
    /\ Len(log2) >= Len(log)
    /\ SubSeq(log2, 1, Len(log)) = log

\* C29: phases run strictly plan, act, report and again: after every step the
\* phase tags of each agent's execution_log are a prefix of (plan, act,
\* report) repeated and its timestamps never decrease; a step other than a
\* start() of the agent only appends to the log, at most one entry (no two
\* phases finish together), and an entry is appended only by the agent's own
\* loop task resuming from the await of that phase.
C29_PhasesInOrder ==
    [][\A a \in AgentIds :
        a \in DOMAIN agent' =>
            /\ InPhaseOrder(LogPhases(agent'[a]))
            /\ TimestampsAscend(agent'[a].execution_log)
            /\ (a \in Existing /\ ~CallStep("start", a)) =>
                  /\ Extends(agent'[a].execution_log, agent[a].execution_log)
                  /\ Len(agent'[a].execution_log) <= Len(agent[a].execution_log) + 1
                  /\ Len(agent'[a].execution_log) > Len(agent[a].execution_log) =>
                        /\ task[a].pc \in Suspended
                        /\ task'[a] # task[a]
                        /\ LastLog(agent'[a]).phase =
                              [plan_sleep |-> "plan", act_exec |-> "act",
                               report_sleep |-> "report"][task[a].pc]
                        /\ LastLog(agent'[a]).timestamp = clock
      ]_vars

\* a run that went through two whole iterations
C29_Witness ==
    \E a \in Existing :
        /\ LogPhases(agent[a]) = <<"plan", "act", "report", "plan", "act", "report">>
        /\ agent[a].execution_log[1].timestamp < agent[a].execution_log[6].timestamp

\* the changes of state the life cycle allows, by who makes the step
StartChange(s, t) == s \in {CREATED} \cup TerminalStates /\ t = PLANNING

OtherChange(s, t) ==
    \/ <<s, t>> \in {<<PLANNING, ACTING>>, <<ACTING, REPORTING>>,
                     <<REPORTING, PLANNING>>, <<REPORTING, COMPLETED>>}
    \/ s \notin TerminalStates /\ t \in {STOPPED, ERROR}

\* C30: every change of an agent's state is one of CREATED -> PLANNING or
\* terminal -> PLANNING (by start()), PLANNING -> ACTING, ACTING -> REPORTING,
\* REPORTING -> PLANNING, REPORTING -> COMPLETED, non-terminal -> STOPPED and
\* non-terminal -> ERROR; a terminal state is left only by start().
C30_StateGraph ==
    [][\A a \in AgentIds :
        (a \in Existing /\ agent'[a].state # agent[a].state) =>
            IF CallStep("start", a)
            THEN StartChange(agent[a].state, agent'[a].state)
            ELSE OtherChange(agent[a].state, agent'[a].state)
      ]_vars

\* ------------------------------------------------- the factory's tables
\* the task of agent a that the factory spawned is over or cancelled
FinishedOrCancelled(t) == t.wrapped /\ (t.pc = "done" \/ t.cancel)

\* C31: after every step, no task that has finished (run_loop returned or
\* raised, or the task was cancelled before or after its first step) and no
\* task whose cancellation was requested is in the tracking table; the
\* step that ends a task leaves the table as it was but for that task's own
\* entry, also when stop_agent or cleanup took the entry out before.
C31_NoFinishedTaskTracked ==
    [][\A a \in AgentIds :
        a \in DOMAIN task' =>
            /\ FinishedOrCancelled(task'[a]) => a \notin runningTasks'
            /\ (a \in Existing /\ task[a].wrapped
                  /\ task[a].pc # "done" /\ task'[a].pc = "done") =>
                  runningTasks' = runningTasks \ {a}
      ]_vars

\* stop_agent took the entry out and cancelled the task; the task has since
\* ended by the cancellation, and another task is still tracked
C31_Witness ==
    \E a, b \in Existing :
        /\ task[a].wrapped /\ task[a].pc = "done"
        /\ agent[a].loop_exit = "cancelled"
        /\ a \notin runningTasks
        /\ b \in runningTasks

\* ------------------------------------------------------- the act phase
\* the step is the act phase of agent a logging its entry
ActLogStep(a) ==
    /\ a \in Existing
    /\ task[a].pc = "act_exec"
    /\ Len(agent'[a].execution_log) > Len(agent[a].execution_log)

\* the log entry the act phase wrote in the step
ActEntry(a) == agent'[a].execution_log[Len(agent[a].execution_log) + 1]

\* every action is marked, a failed one with the failure's text, and the
\* entry counts what is marked
AllActionsMarked(plan, entry) ==
    /\ \A i \in DOMAIN plan :
          \/ plan[i].status = "completed" /\ plan[i].result = "result"
          \/ plan[i].status = "error" /\ plan[i].result = "error text"
    /\ entry.actions_executed = CountStatus(plan, "completed")
    /\ entry.actions_failed = CountStatus(plan, "error")
    /\ entry.actions_executed + entry.actions_failed = Len(plan)

\* the executor is called on the actions one by one in plan order
CalledInPlanOrder(a) ==
    /\ ResumeStep(a, "plan_sleep") /\ task'[a].pc = "act_exec" => task'[a].idx = 1
    /\ ResumeStep(a, "act_exec") /\ task'[a].pc = "act_exec" =>
          /\ task'[a].idx = task[a].idx + 1
          /\ agent'[a].exec_calls = agent[a].exec_calls + 1

C33_ActiveAgentHasLiveTask ==
    \A k \in DOMAIN registry :
        LET a == registry[k] IN
        agent[a].state \in {PLANNING, ACTING, REPORTING} =>
            /\ k \in runningTasks
            /\ Live(task[a])
            /\ ~task[a].cancel

\* C34: whatever goal start_autonomous_agent was given, the empty string
\* included, the agent it started is eventually in a terminal state with
\* running false.
C34_StartedAgentEnds ==
    \A a \in AgentIds :
        (a \in Existing /\ task[a].wrapped)
            ~> (/\ a \in Existing
                /\ agent[a].state \in TerminalStates
                /\ ~agent[a].running)

\* the iterations a run has begun: each logs its plan first
IterationsBegun(ag) ==
    Cardinality({i \in DOMAIN ag.execution_log : ag.execution_log[i].phase = "plan"})

\* an upper limit that is not positive allows nothing
AtMost(n, limit) == n <= (IF limit > 0 THEN limit ELSE 0)

C36_FinishedAgentIsFrozen ==
    [][\A a \in AgentIds :
        (/\ a \in Existing
         /\ agent[a].loop_exit # "none"
         /\ ~agent[a].running
         /\ agent[a].state \in TerminalStates
         /\ ~CallStep("start", a)) =>
            /\ agent'[a].state = agent[a].state
            /\ agent'[a].end_time = agent[a].end_time
            /\ agent'[a].error_message = agent[a].error_message
            /\ agent'[a].execution_log = agent[a].execution_log
            /\ agent'[a].iterations_completed = agent[a].iterations_completed
      ]_vars

\* stop_agent was called on an agent whose run had ended COMPLETED some
\* time before: it is still COMPLETED, with the end time of its run
C36_Witness ==
    \E a \in Existing :
        /\ lastCall.op = "stop_agent" /\ lastCall.agent = a
        /\ agent[a].loop_exit = "returned"
        /\ agent[a].state = COMPLETED
        /\ agent[a].stop_requested
        /\ agent[a].end_time < clock

\* C37: the elapsed_time of every snapshot is at least 0.
C37_ElapsedTimeNotNegative ==
    \A a \in Existing : GetStatus(a, agent[a], clock).elapsed_time >= 0

\* ------------------------------------- the factory and its public registry
\* factory.registry is a public attribute: besides the factory's own
\* operations a client may call registry.unregister_agent with any id.
NextUnregister ==
    \/ NextFactory
    \/ \E k \in AgentIds : RegistryUnregister(k)

SpecUnregister == InitFactory /\ [][NextUnregister]_vars

\* C38: in every state another caller can observe, an agent in ACTING or
\* REPORTING has running true, and an agent with running true is in
\* PLANNING, ACTING, REPORTING or STOPPED: never COMPLETED or ERROR with
\* running true, never ACTING or REPORTING with running false, also after
\* its task was cancelled.
C38_RunningMatchesState ==
    \A a \in Existing :
        LET s == GetStatus(a, agent[a], clock) IN
        /\ s.state \in {ACTING, REPORTING} => s.running
        /\ s.running => s.state \in {PLANNING, ACTING, REPORTING, STOPPED}

\* C39: every agent id in the factory's task table is a key of the
\* registry, in every reachable state, also after unregister_agent was
\* called for an agent whose loop is running (so stop_agent finds every
\* agent that has a live background task).
C39_TrackedAgentsRegistered == runningTasks \subseteq DOMAIN registry

\* the entries of one iteration carry one index, and the plan entry that
\* follows a report entry carries the next one
IterationIndicesInStep(log) ==
    \A i \in DOMAIN log :
        i > 1 =>
            /\ log[i - 1].iteration <= log[i].iteration
            /\ log[i].phase # "plan" => log[i].iteration = log[i - 1].iteration
            /\ (log[i - 1].phase = "report" /\ log[i].phase = "plan") =>
                  log[i].iteration = log[i - 1].iteration + 1

====
